---- MODULE Spec2Model ----
(***************************************************************************)
(* Model of the two Blender add-ons of this repository:                    *)
(*   CreateBrekelDrivers.execute  (animation_create_brekel_drivers.py)     *)
(*   CreateBrekelAction.execute   (animation_create_brekel_action.py)      *)
(* Each operator invocation is one atomic step (the add-ons are            *)
(* synchronous and single threaded).  Strings that the code formats,       *)
(* splits or searches are sequences of tokens: a name is a sequence of     *)
(* one-character strings, a data path is a sequence of tokens in which the *)
(* double quote is the token Quote.  Angles are integers in micro-radians, *)
(* shape key values integers in hundredths, lengths integers in hundredths.*)
(***************************************************************************)
EXTENDS Integers, Sequences, FiniteSets, TLC

VARIABLES bones, key_blocks, shape_keys, animation_data, rotation_mode, run,
          actions, armatures, new_actions, mode, rec

vars == <<bones, key_blocks, shape_keys, animation_data, rotation_mode, run,
          actions, armatures, new_actions, mode, rec>>

linkVars == <<bones, key_blocks, shape_keys, animation_data, rotation_mode, run>>
recVars == <<actions, armatures, new_actions, mode, rec>>

(* ----------------------------- bounds ---------------------------------- *)
MaxBones == 3
MaxChannels == 4
MaxKeyframes == 3
MaxRuns == 2

(* ----------------------------- strings --------------------------------- *)
Quote == "\""

Facejoint == <<"F", "a", "c", "e", "j", "o", "i", "n", "t">>

NameA == <<"A">>
NameB == <<"B">>
NameC == <<"C">>
NameD == <<"D">>
NameLFacejoint == <<"L">> \o Facejoint

\* Python's  sub in s  on strings.
Contains(s, sub) ==
  \E i \in 1..(Len(s) - Len(sub) + 1) : SubSeq(s, i, i + Len(sub) - 1) = sub

\* 'key_blocks["%s"].value' % name
ShapeKeyDataPath(name) == <<"key_blocks[", Quote>> \o name \o <<Quote, "].value">>

\* 'pose.bones["%s"].rotation_euler' % name
BoneRotationDataPath(name) == <<"pose.bones[", Quote>> \o name \o <<Quote, "].rotation_euler">>

\* Python's  s.split( sep )  for a one-token separator: the list of the
\* (possibly empty) segments between the occurrences of sep.
RECURSIVE SplitFrom(_, _, _, _)
SplitFrom(s, sep, i, cur) ==
  IF i > Len(s) THEN <<cur>>
  ELSE IF s[i] = sep THEN <<cur>> \o SplitFrom(s, sep, i + 1, <<>>)
  ELSE SplitFrom(s, sep, i + 1, Append(cur, s[i]))

Split(s, sep) == SplitFrom(s, sep, 1, <<>>)

(* ------------------------ the scene of the linker ---------------------- *)
\* context.selected_objects lists the selected objects in scene order.
ObjectOrder == <<"Mesh1", "Object3", "Mesh2", "Armature">>

Objects == {ObjectOrder[i] : i \in 1..Len(ObjectOrder)}

None == "None"
\* the value of shape_keys for an object whose data has no such attribute.
NoAttr == "NoAttr"

\* obj.type: only mesh data has the shape_keys attribute.
ObjectType(o, sk) ==
  IF o = "Armature" THEN "ARMATURE" ELSE IF sk[o] = NoAttr THEN "LAMP" ELSE "MESH"

Keys == {"Key1", "Key2"}

BoneNames == {NameA, NameB, NameC, NameLFacejoint}

InjectiveSeqs(S, n) ==
  {s \in [1..n -> S] : \A i, j \in 1..n : i # j => s[i] # s[j]}

Min(a, b) == IF a < b THEN a ELSE b

BoneOrders == InjectiveSeqs(BoneNames, Min(MaxBones, Cardinality(BoneNames)))

NoLinkRun ==
  [status |-> "NONE", selected |-> {}, active |-> None, report |-> <<>>,
   driver_counts |-> <<>>, created |-> <<>>, repeat |-> FALSE,
   prev_total |-> 0, before |-> << >>]

(* --------------------- CreateBrekelDrivers.execute --------------------- *)
\* the three keyframes of the interpolation curve: co = (micro-radians, hundredths)
DriverKeyframes == << <<0, 0>>, <<872665, 50>>, <<1745330, 100>> >>

\* key_blocks[ name ].driver_add( 'value' ) followed by the initialisation
\* of the new driver: the F-curve drives the data path of the shape key value.
NewDriver(name) ==
  [data_path |-> ShapeKeyDataPath(name),
   extrapolation |-> "LINEAR",
   keyframe_points |-> DriverKeyframes,
   type |-> "AVERAGE",
   id |-> "Armature",
   bone_target |-> name,
   transform_space |-> "LOCAL_SPACE",
   transform_type |-> "ROT_X"]

\* mesh_driver_data_paths: the data paths of the existing drivers of a key.
MeshDriverDataPaths(ad) ==
  IF ad.exists THEN {ad.drivers[i].data_path : i \in 1..Len(ad.drivers)} ELSE {}

\* variant: the existing drivers are not consulted.
SkipBoneIgnoringDrivers(name, kb, paths) == ~(name \in kb)

\* the  continue  condition of the bone loop.
SkipBone(name, kb, paths) ==
  ~(name \in kb) \/ (ShapeKeyDataPath(name) \in paths)

\* the bone loop for one mesh: acc = [ad, count, created]
RECURSIVE LinkBones(_, _, _, _, _)
RECURSIVE LinkBonesCountingEveryBone(_, _, _, _, _)

\* variant: the counter is incremented before the  continue  test.
LinkBonesCountingEveryBone(i, bs, kb, paths, acc) ==
  IF i > Len(bs) THEN acc
  ELSE IF SkipBone(bs[i], kb, paths)
       THEN LinkBonesCountingEveryBone(i + 1, bs, kb, paths,
                                       [acc EXCEPT !.count = acc.count + 1])
  ELSE LinkBonesCountingEveryBone(i + 1, bs, kb, paths,
         [ad |-> [exists |-> TRUE,
                  drivers |-> Append(acc.ad.drivers, NewDriver(bs[i]))],
          count |-> acc.count + 1,
          created |-> Append(acc.created, bs[i])])

LinkBones(i, bs, kb, paths, acc) ==
  IF i > Len(bs) THEN acc
  ELSE IF SkipBone(bs[i], kb, paths) THEN LinkBones(i + 1, bs, kb, paths, acc)
  ELSE LinkBones(i + 1, bs, kb, paths,
         [ad |-> [exists |-> TRUE,
                  drivers |-> Append(acc.ad.drivers, NewDriver(bs[i]))],
          count |-> acc.count + 1,
          created |-> Append(acc.created, bs[i])])

Reverse(q) == [i \in 1..Len(q) |-> q[Len(q) + 1 - i]]

\* variant: the bones are visited from the last to the first.
LinkMeshBackwards(bs, kb, ad) ==
  LinkBones(1, Reverse(bs), kb, MeshDriverDataPaths(ad),
            [ad |-> ad, count |-> 0, created |-> <<>>])

\* one iteration of the mesh loop: the data paths are read, then the bones
\* are visited.
LinkMesh(bs, kb, ad) ==
  LinkBones(1, bs, kb, MeshDriverDataPaths(ad),
            [ad |-> ad, count |-> 0, created |-> <<>>])

\* variant: the data paths of the existing drivers are read once, before
\* the mesh loop, for all the meshes.
RECURSIVE LinkMeshesStaleLoop(_, _, _, _, _, _, _)
LinkMeshesStaleLoop(i, meshes, bs, kbs, sk, st, ad0) ==
  IF i > Len(meshes) THEN st
  ELSE LET key == sk[meshes[i]]
           r == LinkBones(1, bs, kbs[key], MeshDriverDataPaths(ad0[key]),
                          [ad |-> st.ad[key], count |-> 0, created |-> <<>>])
       IN LinkMeshesStaleLoop(i + 1, meshes, bs, kbs, sk,
            [ad |-> [st.ad EXCEPT ![key] = r.ad],
             driver_counts |-> Append(st.driver_counts, <<meshes[i], r.count>>),
             created |-> Append(st.created, r.created)], ad0)

LinkMeshesStale(i, meshes, bs, kbs, sk, st) ==
  LinkMeshesStaleLoop(i, meshes, bs, kbs, sk, st, st.ad)

\* the mesh loop: st = [ad (all keys), driver_counts, created]
RECURSIVE LinkMeshes(_, _, _, _, _, _)
LinkMeshes(i, meshes, bs, kbs, sk, st) ==
  IF i > Len(meshes) THEN st
  ELSE LET key == sk[meshes[i]]
           r == LinkMesh(bs, kbs[key], st.ad[key])
       IN LinkMeshes(i + 1, meshes, bs, kbs, sk,
            [ad |-> [st.ad EXCEPT ![key] = r.ad],
             driver_counts |-> Append(st.driver_counts, <<meshes[i], r.count>>),
             created |-> Append(st.created, r.created)])

\* the sum of the counts of a list of ( mesh, count ) pairs.
RECURSIVE Total(_)
Total(counts) == IF counts = <<>> THEN 0 ELSE counts[1][2] + Total(Tail(counts))

\* meshes = [ mesh for mesh in context.selected_objects if mesh != active ]
RECURSIVE SelectedMeshes(_, _, _)
SelectedMeshes(i, selected, active) ==
  IF i > Len(ObjectOrder) THEN <<>>
  ELSE (IF ObjectOrder[i] \in selected /\ ObjectOrder[i] # active
        THEN <<ObjectOrder[i]>> ELSE <<>>) \o SelectedMeshes(i + 1, selected, active)

\* the shape key test of the validation loop.
LacksShapeKeys(o, sk) == sk[o] = NoAttr \/ sk[o] = None

\* the first mesh of the list that fails the validation, or None.
RECURSIVE FirstInvalid(_, _, _)
FirstInvalid(i, meshes, sk) ==
  IF i > Len(meshes) THEN None
  ELSE IF LacksShapeKeys(meshes[i], sk) THEN meshes[i]
  ELSE FirstInvalid(i + 1, meshes, sk)

\* the error checking of execute: the report of the error, or <<>>.
LinkError(selected, active, sk) ==
  IF Cardinality(selected) < 2 THEN <<"ERROR", "select mesh and armature">>
  ELSE IF ObjectType(active, sk) # "ARMATURE" THEN <<"ERROR", "armature last">>
  ELSE LET bad == FirstInvalid(1, SelectedMeshes(1, selected, active), sk)
       IN IF bad # None THEN <<"ERROR", "no shape keys", bad>> ELSE <<>>

\* the longest prefix of the meshes that have shape keys.
RECURSIVE ValidPrefix(_, _, _)
ValidPrefix(i, meshes, sk) ==
  IF i > Len(meshes) \/ LacksShapeKeys(meshes[i], sk) THEN <<>>
  ELSE <<meshes[i]>> \o ValidPrefix(i + 1, meshes, sk)

\* variant: a mesh is validated when the mesh loop reaches it, so that the
\* meshes before the offending one have got their drivers.
CreateBrekelDriversLateCheck(selected, active) ==
  LET err == LinkError(selected, active, shape_keys)
      meshes == SelectedMeshes(1, selected, active)
      rep == run.status = "FINISHED" /\ run.selected = selected /\ run.active = active
      early == Cardinality(selected) < 2 \/ ObjectType(active, shape_keys) # "ARMATURE"
      st == LinkMeshes(1, IF early THEN <<>> ELSE ValidPrefix(1, meshes, shape_keys),
                       bones, key_blocks, shape_keys,
                       [ad |-> animation_data, driver_counts |-> <<>>, created |-> <<>>])
  IN
  /\ rotation_mode' = IF early THEN rotation_mode
                      ELSE [b \in DOMAIN rotation_mode |-> "ZXY"]
  /\ animation_data' = st.ad
  /\ run' = [status |-> IF err # <<>> THEN "CANCELLED" ELSE "FINISHED",
             selected |-> selected, active |-> active,
             report |-> IF err # <<>> THEN err ELSE <<"INFO">>,
             driver_counts |-> IF err # <<>> THEN <<>> ELSE st.driver_counts,
             created |-> IF err # <<>> THEN <<>> ELSE st.created,
             repeat |-> rep, prev_total |-> Total(run.driver_counts),
             before |-> animation_data]
  /\ UNCHANGED <<bones, key_blocks, shape_keys>>
  /\ UNCHANGED recVars

CreateBrekelDrivers(selected, active) ==
  LET err == LinkError(selected, active, shape_keys)
      meshes == SelectedMeshes(1, selected, active)
      rep == run.status = "FINISHED" /\ run.selected = selected /\ run.active = active
  IN
  /\ IF err # <<>>
     THEN /\ run' = [status |-> "CANCELLED", selected |-> selected, active |-> active,
                     report |-> err, driver_counts |-> <<>>, created |-> <<>>,
                     repeat |-> rep, prev_total |-> Total(run.driver_counts),
                     before |-> animation_data]
          /\ UNCHANGED <<animation_data, rotation_mode>>
     ELSE LET st == LinkMeshes(1, meshes, bones, key_blocks, shape_keys,
                               [ad |-> animation_data, driver_counts |-> <<>>,
                                created |-> <<>>])
          IN /\ rotation_mode' = [b \in DOMAIN rotation_mode |-> "ZXY"]
             /\ animation_data' = st.ad
             /\ run' = [status |-> "FINISHED", selected |-> selected, active |-> active,
                        report |-> <<"INFO">>, driver_counts |-> st.driver_counts,
                        created |-> st.created, repeat |-> rep,
                        prev_total |-> Total(run.driver_counts),
                        before |-> animation_data]
  /\ UNCHANGED <<bones, key_blocks, shape_keys>>
  /\ UNCHANGED recVars

(* ------------------------ the data of the reconstructor ---------------- *)
\* the keyframes a baked shape key F-curve is drawn from: frame numbers
\* strictly increasing, values in hundredths of the shape key range.
RampFrames == <<1, 10, 24, 43, 60>>
RampValues == <<0, 50, 100, 25, 75>>

RampLen == Min(MaxKeyframes, Len(RampFrames))

\* the first n points of the ramp, and the last n of its first RampLen points.
RampPrefix(n) == [i \in 1..n |-> <<RampFrames[i], RampValues[i]>>]
RampSuffix(n) == [i \in 1..n |-> <<RampFrames[RampLen - n + i], RampValues[RampLen - n + i]>>]

\* the keyframes of the F-curves of one baked action, by position: all of
\* one length, or of lengths that differ from one F-curve to the next.
KeyframeAssignments ==
  {[i \in 1..MaxChannels |-> RampPrefix(n)] : n \in 0..RampLen} \cup
  {[i \in 1..MaxChannels |-> RampPrefix((i + o) % (RampLen + 1))] : o \in 0..RampLen} \cup
  {[i \in 1..MaxChannels |-> RampSuffix((i + o) % (RampLen + 1))] : o \in 0..RampLen}

\* data paths of the F-curves of the baked action; "eval_time" is the
\* animatable property of a shape key datablock that is not a key block.
SourcePaths ==
  {ShapeKeyDataPath(NameA), ShapeKeyDataPath(NameB), ShapeKeyDataPath(NameD),
   ShapeKeyDataPath(NameLFacejoint), <<"eval_time">>}

SourceFCurveSeqs ==
  UNION {{[i \in 1..n |-> [data_path |-> p[i], keyframe_points |-> kf[i]]] :
            p \in InjectiveSeqs(SourcePaths, n), kf \in KeyframeAssignments} :
         n \in 0..Min(MaxChannels, Cardinality(SourcePaths))}

(* ---------------------- CreateBrekelAction.execute --------------------- *)
\* variant: the value in degrees is not converted to radians.
ToRotationInDegrees(value) == value * 1000000

\* value * 100.0 * 0.01745329251 for a value in hundredths, in micro-radians
\* (rounded down): 0.01745329251 rad is 17453 micro-radians and 29251
\* hundred-thousandths of a micro-radian.
RadPerDegreeMicro == 17453
RadPerDegreeRest == 29251

ToRotation(value) ==
  value * RadPerDegreeMicro + ((value * RadPerDegreeRest) \div 100000)

\* keyframe_points.insert( frame, value ): the points stay ordered by frame
\* and a point at an existing frame is replaced.
RECURSIVE Insert(_, _, _)
Insert(kps, frame, value) ==
  IF kps = <<>> THEN << <<frame, value>> >>
  ELSE IF kps[1][1] = frame THEN << <<frame, value>> >> \o Tail(kps)
  ELSE IF kps[1][1] > frame THEN << <<frame, value>> >> \o kps
  ELSE <<kps[1]>> \o Insert(Tail(kps), frame, value)

\* insert_and_init_keyframe
InsertAndInitKeyframe(kps, frame, value) == Insert(kps, frame, value)

\* the keyframe loop: xyz = the keyframe points of the three new F-curves.
RECURSIVE CopyKeyframes(_, _, _)
CopyKeyframes(i, src, xyz) ==
  IF i > Len(src) THEN xyz
  ELSE CopyKeyframes(i + 1, src,
         <<InsertAndInitKeyframe(xyz[1], src[i][1], ToRotation(src[i][2])),
           InsertAndInitKeyframe(xyz[2], src[i][1], 0),
           InsertAndInitKeyframe(xyz[3], src[i][1], 0)>>)

\* bone placement, in hundredths of a unit.
LayoutSpacing == 25
BoneLength == 100

NewBone(name, num_shape_keys) ==
  [name |-> name,
   head |-> <<num_shape_keys * LayoutSpacing, 0, 0>>,
   tail |-> <<num_shape_keys * LayoutSpacing, 0, BoneLength>>]

\* variant: only the name that is exactly "Facejoint" is skipped.
SkipShapeKeyExactName(shape_key_name) == shape_key_name = Facejoint

\* the skip test of the shape key loop.
SkipShapeKey(shape_key_name) == Contains(shape_key_name, Facejoint)

\* variant: only the F-curve of the X axis is created.
NewFCurvesXOnly(shape_key_name, src) ==
  LET xyz == CopyKeyframes(1, src, <<<<>>, <<>>, <<>>>>)
  IN << [data_path |-> BoneRotationDataPath(shape_key_name),
         array_index |-> 0,
         keyframe_points |-> xyz[1]] >>

\* the three F-curves created for a shape key, with their keyframes.
NewFCurves(shape_key_name, src) ==
  LET xyz == CopyKeyframes(1, src, <<<<>>, <<>>, <<>>>>)
  IN [k \in 1..3 |-> [data_path |-> BoneRotationDataPath(shape_key_name),
                      array_index |-> k - 1,
                      keyframe_points |-> xyz[k]]]

\* variant: the counter is incremented for a skipped shape key too.
RECURSIVE ShapeKeyLoopCountingSkipped(_, _, _)
ShapeKeyLoopCountingSkipped(i, fcs, st) ==
  IF i > Len(fcs) THEN st
  ELSE LET parts == Split(fcs[i].data_path, Quote)
       IN IF Len(parts) < 2 THEN [st EXCEPT !.raised = "IndexError"]
          ELSE LET shape_key_name == parts[2]
               IN IF SkipShapeKey(shape_key_name)
                  THEN ShapeKeyLoopCountingSkipped(i + 1, fcs,
                         [st EXCEPT !.num_shape_keys = st.num_shape_keys + 1])
                  ELSE ShapeKeyLoopCountingSkipped(i + 1, fcs,
                         [edit_bones |-> Append(st.edit_bones,
                                                NewBone(shape_key_name, st.num_shape_keys)),
                          fcurves |-> st.fcurves \o
                                      NewFCurves(shape_key_name, fcs[i].keyframe_points),
                          num_shape_keys |-> st.num_shape_keys + 1,
                          raised |-> st.raised])

\* the shape key loop over the F-curves of the baked action:
\* st = [edit_bones, fcurves, num_shape_keys, raised]
RECURSIVE ShapeKeyLoop(_, _, _)
ShapeKeyLoop(i, fcs, st) ==
  IF i > Len(fcs) THEN st
  ELSE LET parts == Split(fcs[i].data_path, Quote)
       IN IF Len(parts) < 2 THEN [st EXCEPT !.raised = "IndexError"]
          ELSE LET shape_key_name == parts[2]
               IN IF SkipShapeKey(shape_key_name) THEN ShapeKeyLoop(i + 1, fcs, st)
                  ELSE ShapeKeyLoop(i + 1, fcs,
                         [edit_bones |-> Append(st.edit_bones,
                                                NewBone(shape_key_name, st.num_shape_keys)),
                          fcurves |-> st.fcurves \o
                                      NewFCurves(shape_key_name, fcs[i].keyframe_points),
                          num_shape_keys |-> st.num_shape_keys + 1,
                          raised |-> st.raised])

\* the error checking of execute.
SourceActionMissing(acts) == ~acts.exists

NoRecRun == [status |-> "NONE", raised |-> None, num_shape_keys |-> 0,
             before |-> <<0, 0, "OBJECT">>]

CreateBrekelAction ==
  /\ Len(armatures) < MaxRuns
  /\ IF SourceActionMissing(actions)
     THEN /\ rec' = [status |-> "CANCELLED", raised |-> None, num_shape_keys |-> 0,
                     before |-> <<Len(armatures), Len(new_actions), mode>>]
          /\ UNCHANGED <<armatures, new_actions, mode>>
     ELSE LET st == ShapeKeyLoop(1, actions.fcurves,
                                 [edit_bones |-> <<>>, fcurves |-> <<>>,
                                  num_shape_keys |-> 0, raised |-> None])
              ok == st.raised = None
          IN /\ armatures' = Append(armatures,
                  [name |-> "Recording",
                   bones |-> st.edit_bones,
                   pose |-> IF ok THEN [k \in 1..Len(st.edit_bones) |-> "ZXY"]
                            ELSE <<>>])
             /\ new_actions' = Append(new_actions,
                  [name |-> "Recording", id_root |-> "OBJECT",
                   use_fake_user |-> TRUE, fcurves |-> st.fcurves])
             /\ mode' = IF ok THEN "OBJECT" ELSE "EDIT"
             /\ rec' = [status |-> IF ok THEN "FINISHED" ELSE "EXCEPTION",
                        raised |-> st.raised, num_shape_keys |-> st.num_shape_keys,
                        before |-> <<Len(armatures), Len(new_actions), mode>>]
  /\ UNCHANGED actions
  /\ UNCHANGED linkVars

(* ------------------------------ scenes --------------------------------- *)
DefaultKeyBlocks == [k \in Keys |-> IF k = "Key1" THEN {NameA, NameC, NameD, NameLFacejoint}
                                    ELSE {NameB, NameC}]

NoAnimationData == [exists |-> FALSE, drivers |-> <<>>]

\* the scenes of the driver linker: an imported armature, meshes with or
\* without shape keys (Mesh2 may share the shape keys of Mesh1), and shape
\* keys of which NameC may already carry a driver.
InitLinkScene ==
  /\ bones \in BoneOrders
  /\ key_blocks = DefaultKeyBlocks
  /\ shape_keys \in {[o \in Objects |->
                        IF o = "Mesh1" THEN "Key1"
                        ELSE IF o = "Mesh2" THEN k2
                        ELSE IF o = "Object3" THEN k3
                        ELSE NoAttr] : k2 \in Keys, k3 \in {None, NoAttr}}
  /\ animation_data \in
       {[k \in Keys |-> IF k = "Key1" THEN a ELSE NoAnimationData] :
          a \in {NoAnimationData,
                 [exists |-> TRUE, drivers |-> <<>>],
                 [exists |-> TRUE, drivers |-> <<NewDriver(NameC)>>]}}
  /\ rotation_mode = [i \in 1..Len(bones) |-> "QUATERNION"]
  /\ run = NoLinkRun

\* the data of the reconstructor: the baked action may be absent.
InitRecScene ==
  /\ actions \in {[exists |-> FALSE, fcurves |-> <<>>]} \cup
                 {[exists |-> TRUE, fcurves |-> f] : f \in SourceFCurveSeqs}
  /\ armatures = <<>>
  /\ new_actions = <<>>
  /\ mode = "OBJECT"
  /\ rec = NoRecRun

\* a fixed scene for the add-on that a specification does not exercise.
FixedLinkScene ==
  /\ bones = <<NameA, NameLFacejoint, NameC>>
  /\ key_blocks = DefaultKeyBlocks
  /\ shape_keys = [o \in Objects |-> IF o = "Mesh1" THEN "Key1"
                                     ELSE IF o = "Mesh2" THEN "Key2"
                                     ELSE IF o = "Object3" THEN None ELSE NoAttr]
  /\ animation_data = [k \in Keys |-> NoAnimationData]
  /\ rotation_mode = [i \in 1..Len(bones) |-> "QUATERNION"]
  /\ run = NoLinkRun

FixedRecScene ==
  /\ actions = [exists |-> FALSE, fcurves |-> <<>>]
  /\ armatures = <<>>
  /\ new_actions = <<>>
  /\ mode = "OBJECT"
  /\ rec = NoRecRun

\* invoking the driver linker with any selection and any active object.
Link == \E selected \in SUBSET Objects, active \in Objects :
          CreateBrekelDrivers(selected, active)

Reconstruct == CreateBrekelAction

InitLink == InitLinkScene /\ FixedRecScene
NextLink == Link
SpecLink == InitLink /\ [][NextLink]_vars

\* both add-ons on one scene: the baked F-curves carry the whole ramp.
BothPaths == {ShapeKeyDataPath(NameA), ShapeKeyDataPath(NameLFacejoint), <<"eval_time">>}

InitBothScene ==
  /\ FixedLinkScene
  /\ InitRecScene
  /\ \A i \in 1..Len(actions.fcurves) :
        /\ actions.fcurves[i].data_path \in BothPaths
        /\ Len(actions.fcurves[i].keyframe_points) = RampLen
Init == InitBothScene
Next == Link \/ Reconstruct
Spec == Init /\ [][Next]_vars

InitRec == FixedLinkScene /\ InitRecScene
NextRec == Reconstruct
SpecRec == InitRec /\ [][NextRec]_vars

(* ======================= properties of the driver linker ================ *)
\* the shape key channel name carries a driver in the animation data ad.
CarriesDriver(ad, name) ==
  \E j \in 1..Len(ad.drivers) : ad.drivers[j].data_path = ShapeKeyDataPath(name)

\* the bone targets of the drivers that the last run added to the key k.
NewTargets(k) ==
  [j \in 1..(Len(animation_data[k].drivers) - Len(run.before[k].drivers)) |->
     animation_data[k].drivers[Len(run.before[k].drivers) + j].bone_target]

\* the destinations of the last run, in the order of the selection.
Destinations == SelectSeq(ObjectOrder, LAMBDA o : o \in run.selected /\ o # run.active)

DestinationKeys == {shape_keys[Destinations[i]] : i \in 1..Len(Destinations)}

\* the names that the last run had to link on the key k, in bone order.
Matched(k) ==
  SelectSeq(bones, LAMBDA n : n \in key_blocks[k] /\ ~CarriesDriver(run.before[k], n))

\* C1: a run of the driver linker that repeats the selection of the finished
\* run just before it reports a created count of 0 for every destination and
\* leaves the number of drivers of every shape key container unchanged.
C1_SecondRunCreatesNothing ==
  (run.status = "FINISHED" /\ run.repeat) =>
     /\ \A i \in 1..Len(run.driver_counts) : run.driver_counts[i][2] = 0
     /\ \A k \in Keys : Len(animation_data[k].drivers) = Len(run.before[k].drivers)

C1_Witness ==
  /\ run.status = "FINISHED" /\ run.repeat /\ run.prev_total > 0
  /\ Len(run.driver_counts) >= 1

\* C2: in a finished run, the names that get a new driver on a destination
\* container are the bones that are a channel of the container and carried no
\* driver, in the order of the bone collection; other containers get none.
C2_MatchedInBoneOrder ==
  run.status = "FINISHED" =>
    \A k \in Keys :
      /\ Len(animation_data[k].drivers) >= Len(run.before[k].drivers)
      /\ SubSeq(animation_data[k].drivers, 1, Len(run.before[k].drivers))
           = run.before[k].drivers
      /\ NewTargets(k) = IF k \in DestinationKeys THEN Matched(k) ELSE <<>>
      /\ \A j \in 1..Len(NewTargets(k)) :
           animation_data[k].drivers[Len(run.before[k].drivers) + j]
             = NewDriver(NewTargets(k)[j])

C2_Witness ==
  /\ run.status = "FINISHED"
  /\ bones = <<NameA, NameB, NameC>>
  /\ {NameA, NameC, NameD} \subseteq key_blocks["Key1"]
  /\ "Mesh1" \in run.selected
  /\ run.before["Key1"].drivers = <<>>
  /\ NewTargets("Key1") = <<NameA, NameC>>

\* C3: a run with fewer than two selected objects, or whose active object is
\* not an armature, or with a selected destination without shape keys, is
\* cancelled with an error report and creates no driver anywhere.
C3_FailureCreatesNothing ==
  (/\ run.status # "NONE"
   /\ \/ Cardinality(run.selected) < 2
      \/ run.active # "Armature"
      \/ \E o \in run.selected \ {run.active} : shape_keys[o] \notin Keys)
  => /\ run.status = "CANCELLED"
     /\ run.report # <<>> /\ run.report[1] = "ERROR"
     /\ animation_data = run.before
     /\ run.driver_counts = <<>>

C3_Witness ==
  /\ run.status = "CANCELLED"
  /\ run.selected = {"Mesh1", "Object3", "Mesh2", "Armature"}
  /\ run.active = "Armature"
  /\ run.report = <<"ERROR", "no shape keys", "Object3">>
  /\ Destinations[1] = "Mesh1" /\ Destinations[2] = "Object3"
  /\ Matched("Key1") # <<>>
  /\ animation_data = run.before

\* the concatenation of the names created for the destinations of key k.
RECURSIVE CreatedOn(_, _)
CreatedOn(k, i) ==
  IF i > Len(run.created) THEN <<>>
  ELSE (IF shape_keys[run.driver_counts[i][1]] = k THEN run.created[i] ELSE <<>>)
       \o CreatedOn(k, i + 1)

RECURSIVE CountOn(_, _)
CountOn(k, i) ==
  IF i > Len(run.driver_counts) THEN 0
  ELSE (IF shape_keys[run.driver_counts[i][1]] = k THEN run.driver_counts[i][2] ELSE 0)
       + CountOn(k, i + 1)

\* C8: a finished run reports one entry per destination, in selection order;
\* the count of an entry is the number of drivers created while that
\* destination was processed, the drivers of the destinations follow each
\* other on a container in the order of the destinations, the counts of a
\* container add up to the drivers it gained, and no name is linked twice.
C8_CountsAreDriversCreated ==
  run.status = "FINISHED" =>
    /\ Len(run.driver_counts) = Len(Destinations)
    /\ Len(run.created) = Len(Destinations)
    /\ \A i \in 1..Len(Destinations) :
         /\ run.driver_counts[i][1] = Destinations[i]
         /\ run.driver_counts[i][2] = Len(run.created[i])
    /\ \A k \in Keys :
         /\ NewTargets(k) = CreatedOn(k, 1)
         /\ CountOn(k, 1) = Len(animation_data[k].drivers) - Len(run.before[k].drivers)
         /\ \A a, b \in 1..Len(NewTargets(k)) :
              a # b => NewTargets(k)[a] # NewTargets(k)[b]
         /\ \A a \in 1..Len(NewTargets(k)) :
              \E b \in 1..Len(Matched(k)) : Matched(k)[b] = NewTargets(k)[a]

C8_Witness ==
  /\ run.status = "FINISHED"
  /\ Len(run.driver_counts) = 2
  /\ run.driver_counts[1][2] >= 2
  /\ run.driver_counts[2][2] >= 1
  /\ Len(NewTargets("Key1")) = run.driver_counts[1][2]

\* C10: every shape key channel of every container carries at most one driver,
\* in every state that runs of the driver linker reach.
C10_AtMostOneDriverPerTarget ==
  \A k \in Keys : \A a, b \in 1..Len(animation_data[k].drivers) :
    a # b => animation_data[k].drivers[a].data_path # animation_data[k].drivers[b].data_path

C10_Witness ==
  /\ run.status = "FINISHED"
  /\ {"Mesh1", "Mesh2"} \subseteq run.selected
  /\ shape_keys["Mesh1"] = shape_keys["Mesh2"]
  /\ run.driver_counts[1][2] > 0
  /\ run.driver_counts[2] = <<"Mesh2", 0>>

(* ==================== properties of the action reconstructor ============ *)
ShapeKeyNames == {NameA, NameB, NameC, NameD, NameLFacejoint, Facejoint}

\* the shape key that a baked F-curve animates.
IsChannelOf(fc, n) == fc.data_path = ShapeKeyDataPath(n)

Excluded(n) == Contains(n, Facejoint)

\* the baked F-curves that are to be reconstructed, in input order.
KeptChannels ==
  SelectSeq(actions.fcurves,
            LAMBDA fc : \E n \in ShapeKeyNames : IsChannelOf(fc, n) /\ ~Excluded(n))

NameOfChannel(fc) == CHOOSE n \in ShapeKeyNames : IsChannelOf(fc, n)

\* toAngle: weight * 100 * pi / 180, for a weight in hundredths, in micro-radians.
ToAngle(w) == (w * 3141593) \div 180

Near(a, b) == a - b <= 100 /\ b - a <= 100

Frames(kps) == [j \in 1..Len(kps) |-> kps[j][1]]

\* C5: after a finished reconstruction, every baked channel that is not
\* skipped has exactly one X rotation F-curve of the bone of its name in each
\* new action, with as many keyframes, at the same frames, each of the value
\* toAngle of the baked value (to 1e-4).
C5_SamplesPreserved ==
  rec.status = "FINISHED" =>
    \A a \in 1..Len(new_actions) : \A c \in 1..Len(KeptChannels) :
      LET src == KeptChannels[c].keyframe_points
          xs == {f \in 1..Len(new_actions[a].fcurves) :
                   /\ new_actions[a].fcurves[f].data_path
                        = BoneRotationDataPath(NameOfChannel(KeptChannels[c]))
                   /\ new_actions[a].fcurves[f].array_index = 0}
      IN /\ Cardinality(xs) = 1
         /\ \A f \in xs :
              LET kps == new_actions[a].fcurves[f].keyframe_points
              IN /\ Len(kps) = Len(src)
                 /\ Frames(kps) = Frames(src)
                 /\ \A j \in 1..Len(src) : Near(kps[j][2], ToAngle(src[j][2]))

C5_Witness ==
  /\ rec.status = "FINISHED"
  /\ \E c \in 1..Len(KeptChannels) :
       KeptChannels[c].keyframe_points = << <<1, 0>>, <<10, 50>>, <<24, 100>> >>
  /\ \E f \in 1..Len(new_actions[1].fcurves) :
       LET fc == new_actions[1].fcurves[f]
       IN /\ fc.array_index = 0
          /\ Len(fc.keyframe_points) = 3
          /\ Frames(fc.keyframe_points) = <<1, 10, 24>>
          /\ fc.keyframe_points[1][2] = 0
          /\ Near(fc.keyframe_points[2][2], 872665)
          /\ Near(fc.keyframe_points[3][2], 1745330)

\* C6: the k-th bone (from 0) of every reconstructed armature has its head at
\* (k * 0.25, 0, 0) and its tail at (k * 0.25, 0, 1); after a finished run the
\* bones are those of the channels that were not skipped, in input order, so
\* that a skipped channel takes no position.
C6_Layout ==
  \A a \in 1..Len(armatures) :
    /\ \A k \in 1..Len(armatures[a].bones) :
         /\ armatures[a].bones[k].head = <<(k - 1) * 25, 0, 0>>
         /\ armatures[a].bones[k].tail = <<(k - 1) * 25, 0, 100>>
    /\ \A k, l \in 1..Len(armatures[a].bones) :
         k # l => armatures[a].bones[k].head[1] # armatures[a].bones[l].head[1]
    /\ rec.status = "FINISHED" =>
         /\ Len(armatures[a].bones) = Len(KeptChannels)
         /\ \A k \in 1..Len(KeptChannels) :
              armatures[a].bones[k].name = NameOfChannel(KeptChannels[k])

C6_Witness ==
  /\ rec.status = "FINISHED"
  /\ Len(actions.fcurves) = 4
  /\ IsChannelOf(actions.fcurves[2], NameLFacejoint)
  /\ Len(armatures[1].bones) = 3
  /\ armatures[1].bones[1].head[1] = 0
  /\ armatures[1].bones[2].head[1] = 25
  /\ armatures[1].bones[3].head[1] = 50
  /\ armatures[1].bones[3].name = NameOfChannel(actions.fcurves[4])

\* C7: a run of the reconstructor that does not finish has created no
\* armature and no action and has left the mode as it was.
C7_FailedRunCreatesNothing ==
  rec.status \notin {"NONE", "FINISHED"} =>
    /\ Len(armatures) = rec.before[1]
    /\ Len(new_actions) = rec.before[2]
    /\ mode = rec.before[3]

\* the F-curve of axis k (0, 1, 2) of the b-th bone of the a-th new action.
AxisCurve(a, b, k) == new_actions[a].fcurves[3 * (b - 1) + k + 1]

ThreeCurvesPerBone(a) ==
  /\ Len(armatures[a].bones) = Len(KeptChannels)
  /\ Len(new_actions[a].fcurves) = 3 * Len(armatures[a].bones)
  /\ \A b \in 1..Len(armatures[a].bones) : \A k \in 0..2 :
       /\ AxisCurve(a, b, k).data_path = BoneRotationDataPath(armatures[a].bones[b].name)
       /\ AxisCurve(a, b, k).array_index = k
  /\ \A f \in 1..Len(new_actions[a].fcurves) :
       ~Contains(new_actions[a].fcurves[f].data_path, Facejoint)

\* C9 as stated: after a finished reconstruction the new action holds three
\* F-curves per created bone, for the axes 0, 1, 2, none for a skipped channel,
\* and only the X F-curve carries samples: those of Y and Z have no keyframe.
C9_OnlyXCarriesSamples ==
  rec.status = "FINISHED" =>
    \A a \in 1..Len(new_actions) :
      /\ ThreeCurvesPerBone(a)
      /\ \A b \in 1..Len(armatures[a].bones) : \A k \in 1..2 :
           AxisCurve(a, b, k).keyframe_points = <<>>

\* C9 amended: three F-curves per created bone, for the axes 0, 1, 2, none
\* for a skipped channel; the F-curves of Y and Z carry one keyframe of value
\* 0 at the frame of every baked keyframe, like the X F-curve, whose values
\* are the mapped angles.
C9_ThreeChannelsYZZero ==
  rec.status = "FINISHED" =>
    \A a \in 1..Len(new_actions) :
      /\ ThreeCurvesPerBone(a)
      /\ \A b \in 1..Len(armatures[a].bones) :
           LET src == KeptChannels[b].keyframe_points
           IN /\ AxisCurve(a, b, 0).keyframe_points
                   = [j \in 1..Len(src) |-> <<src[j][1], ToRotation(src[j][2])>>]
              /\ \A k \in 1..2 :
                   AxisCurve(a, b, k).keyframe_points
                     = [j \in 1..Len(src) |-> <<src[j][1], 0>>]

C9_Witness ==
  /\ rec.status = "FINISHED"
  /\ \E i \in 1..Len(actions.fcurves) : IsChannelOf(actions.fcurves[i], NameLFacejoint)
  /\ Len(armatures[1].bones) >= 2
  /\ Len(new_actions[1].fcurves) = 3 * Len(armatures[1].bones)
  /\ Len(AxisCurve(1, 2, 1).keyframe_points) >= 2
  /\ AxisCurve(1, 2, 0).keyframe_points[2][2] > 0

(* ========================= properties of both add-ons =================== *)
\* no bone and no rotation F-curve exists for a name containing "Facejoint".
NoFacejointReconstructed ==
  /\ \A a \in 1..Len(armatures) : \A b \in 1..Len(armatures[a].bones) :
       ~Excluded(armatures[a].bones[b].name)
  /\ \A a \in 1..Len(new_actions) : \A f \in 1..Len(new_actions[a].fcurves) :
       ~Contains(new_actions[a].fcurves[f].data_path, Facejoint)

\* no driver exists for a shape key whose name contains "Facejoint".
NoFacejointLinked ==
  \A k \in Keys : \A j \in 1..Len(animation_data[k].drivers) :
    /\ ~Excluded(animation_data[k].drivers[j].bone_target)
    /\ ~Contains(animation_data[k].drivers[j].data_path, Facejoint)

\* C4 as stated: a channel whose name contains "Facejoint" is never linked by
\* the driver linker and never reconstructed by the action reconstructor.
C4_NeverLinkedNorReconstructed == NoFacejointLinked /\ NoFacejointReconstructed

\* C4 amended: a channel whose name contains "Facejoint" is never
\* reconstructed; the driver linker excludes no name: a finished run links
\* such a name of a destination whenever a bone and a shape key of that name
\* exist and the shape key carried no driver.
C4_ReconstructorExcludesLinkerDoesNot ==
  /\ NoFacejointReconstructed
  /\ run.status = "FINISHED" =>
       \A k \in DestinationKeys : \A i \in 1..Len(bones) :
         (Excluded(bones[i]) /\ bones[i] \in key_blocks[k]
            /\ ~CarriesDriver(run.before[k], bones[i]))
         => \E j \in 1..Len(NewTargets(k)) : NewTargets(k)[j] = bones[i]

C4_Witness ==
  /\ rec.status = "FINISHED"
  /\ \E i \in 1..Len(actions.fcurves) : IsChannelOf(actions.fcurves[i], NameLFacejoint)
  /\ Len(armatures[1].bones) >= 1
  /\ run.status = "FINISHED"
  /\ \E j \in 1..Len(NewTargets("Key1")) : NewTargets("Key1")[j] = NameLFacejoint

====
